---------------------------- MODULE Spec2Model ----------------------------
(***************************************************************************)
(* Model of the UEFI string codec of uefi-rs (src/data_types/strs.rs):     *)
(* the null-terminated string view CStr<Char>, encode (Rust &str -> UEFI   *)
(* string in a caller buffer) and decode (UEFI string -> UTF-8 bytes in a  *)
(* caller buffer).                                                         *)
(*                                                                         *)
(* A Rust `char` is its Unicode scalar value; a `&str` is the sequence of  *)
(* its chars, and every offset into a `&str` is a UTF-8 byte offset, as    *)
(* in the code.  A code-unit buffer is the sequence of its integers; the   *)
(* 0-based index i of the code is position i + 1 here.                     *)
(***************************************************************************)
EXTENDS Integers, Sequences, FiniteSets, TLC

VARIABLES kind, orig, input, buffer, res, view, dlen, dres, codes, vres, pc,
          status, class, firmware, iter, hist, run

\* The state of the status codes, of the text-mode iterator and of a
\* conversion followed pass by pass
aux == <<status, class, firmware, iter, hist, run>>

vars == <<kind, orig, input, buffer, res, view, dlen, dres, codes, vres, pc,
          status, class, firmware, iter, hist, run>>

\* Bounds of the model
MaxLen == 3
MaxBuf == 5
MaxBytes == 6

\* '\0', '\n' and Char::CARRIAGE_RETURN
NUL == 0
LF == 10
CR == 13

Kinds == {"Char8", "Char16"}

\* The chars the inputs are drawn from: NUL, LF, CR, 'h', 'i', U+0301
\* (combining acute accent: a grapheme extender, 2 bytes of UTF-8, not
\* Latin-1) and U+1F600 (4 bytes of UTF-8, outside the BMP).
Chars == {NUL, LF, CR, 104, 105, 769, 128512}

\* What a caller's buffer may hold before the call
Fills == {NUL, 120}

None == <<>>
Some(x) == <<x>>

RECURSIVE SeqsUpTo(_, _)
SeqsUpTo(S, n) ==
    IF n = 0 THEN {<<>>}
    ELSE LET shorter == SeqsUpTo(S, n - 1)
         IN shorter \cup {Append(s, c) : s \in {t \in shorter : Len(t) = n - 1}, c \in S}

-----------------------------------------------------------------------------
(* The character kinds (chars.rs: Char8 is Latin-1, Char16 is UCS-2) *)

\* Char::try_from(char) succeeds
CharSupported(k, c) == IF k = "Char8" THEN c <= 255 ELSE c <= 65535

\* Char -> Char::IntRepr of a supported char
CharToInt(k, c) == IF k = "Char8" THEN c % 256 ELSE c % 65536

\* Char::try_from(Char::IntRepr) succeeds
IntValid(k, code) ==
    IF k = "Char8" THEN code \in 0..255
    ELSE code \in 0..65535 /\ ~(55296 <= code /\ code <= 57343)

\* Char -> char
IntToChar(k, code) == code

-----------------------------------------------------------------------------
(* UTF-8 and byte offsets into a &str *)

\* char::len_utf8
Utf8Len(c) == IF c < 128 THEN 1 ELSE IF c < 2048 THEN 2 ELSE IF c < 65536 THEN 3 ELSE 4

\* char::encode_utf8
Utf8Encode(c) ==
    IF c < 128 THEN <<c>>
    ELSE IF c < 2048 THEN <<192 + (c \div 64), 128 + (c % 64)>>
    ELSE IF c < 65536 THEN <<224 + (c \div 4096), 128 + ((c \div 64) % 64), 128 + (c % 64)>>
    ELSE <<240 + (c \div 262144), 128 + ((c \div 4096) % 64),
           128 + ((c \div 64) % 64), 128 + (c % 64)>>

\* core::str::from_utf8 of a well-formed byte sequence, as the chars of the &str
RECURSIVE FromUtf8(_)
FromUtf8(bytes) ==
    IF bytes = <<>> THEN <<>>
    ELSE LET b == bytes[1]
             n == IF b < 128 THEN 1 ELSE IF b < 224 THEN 2 ELSE IF b < 240 THEN 3 ELSE 4
             c == IF n = 1 THEN b
                  ELSE IF n = 2 THEN (b - 192) * 64 + (bytes[2] - 128)
                  ELSE IF n = 3 THEN (b - 224) * 4096 + (bytes[2] - 128) * 64 + (bytes[3] - 128)
                  ELSE (b - 240) * 262144 + (bytes[2] - 128) * 4096
                       + (bytes[3] - 128) * 64 + (bytes[4] - 128)
         IN <<c>> \o FromUtf8(SubSeq(bytes, n + 1, Len(bytes)))

\* str::len: the length of a &str in bytes
RECURSIVE ByteLen(_)
ByteLen(s) == IF s = <<>> THEN 0 ELSE Utf8Len(s[1]) + ByteLen(Tail(s))

\* The byte offset of the k-th char (1-based) of s, as char_indices gives it
ByteOffset(s, k) == ByteLen(SubSeq(s, 1, k - 1))

\* &s[b..] for a byte offset b on a char boundary
StrFrom(s, b) ==
    LET k == CHOOSE j \in 1..(Len(s) + 1) : ByteOffset(s, j) = b
    IN SubSeq(s, k, Len(s))

-----------------------------------------------------------------------------
(* Extended grapheme clusters (unicode_segmentation, UAX #29) over Chars *)

GcbClass(c) ==
    IF c = CR THEN "CR"
    ELSE IF c = LF THEN "LF"
    ELSE IF c < 32 \/ (127 <= c /\ c < 160) THEN "Control"
    ELSE IF 768 <= c /\ c <= 879 THEN "Extend"
    ELSE "Other"

\* No cluster boundary between a and the char b after it: GB3 (CR x LF),
\* GB4/GB5 (break around controls) and GB9 (x Extend); GB999 otherwise
NoBreak(a, b) ==
    \/ GcbClass(a) = "CR" /\ GcbClass(b) = "LF"
    \/ GcbClass(b) = "Extend" /\ GcbClass(a) \notin {"CR", "LF", "Control"}

\* The index of the last char of the cluster that starts at char k of s
RECURSIVE GraphemeEnd(_, _)
GraphemeEnd(s, k) ==
    IF k < Len(s) /\ NoBreak(s[k], s[k + 1]) THEN GraphemeEnd(s, k + 1) ELSE k

\* s.grapheme_indices(true) from char k on: (byte offset, cluster) pairs
RECURSIVE GraphemeIndicesFrom(_, _)
GraphemeIndicesFrom(s, k) ==
    IF k > Len(s) THEN <<>>
    ELSE LET e == GraphemeEnd(s, k)
         IN <<[idx |-> ByteOffset(s, k), chars |-> SubSeq(s, k, e)]>>
            \o GraphemeIndicesFrom(s, e + 1)

GraphemeIndices(s) == GraphemeIndicesFrom(s, 1)

-----------------------------------------------------------------------------
(* CStr<Char>: the view is the sequence of all its code units, the final   *)
(* one included                                                            *)

\* CStr::from_ints_with_nul_unchecked: the view is the whole slice
FromIntsWithNulUnchecked(cs) == cs

\* CStr::to_ints_slice_with_nul
ToIntsSliceWithNul(v) == v

\* CStr::to_ints_slice: all the code units but the last
ToIntsSlice(v) == SubSeq(ToIntsSliceWithNul(v), 1, Len(ToIntsSliceWithNul(v)) - 1)

\* CStr::char_indices: the chars of all the code units but the last
CharIndices(k, v) == [i \in 1..(Len(v) - 1) |-> IntToChar(k, v[i])]

\* A scan that takes the slice's length for its final position
RECURSIVE FromIntsScanOffByOne(_, _, _)
FromIntsScanOffByOne(k, cs, pos) ==
    IF pos >= Len(cs) THEN [tag |-> "NotNulTerminated", pos |-> 0, view |-> <<>>]
    ELSE IF ~IntValid(k, cs[pos + 1])
    THEN [tag |-> "InvalidChar", pos |-> pos, view |-> <<>>]
    ELSE IF IntToChar(k, cs[pos + 1]) = NUL
    THEN IF pos # Len(cs)
         THEN [tag |-> "InteriorNul", pos |-> pos, view |-> <<>>]
         ELSE [tag |-> "Ok", pos |-> 0, view |-> FromIntsWithNulUnchecked(cs)]
    ELSE FromIntsScanOffByOne(k, cs, pos + 1)

\* CStr::from_ints_with_nul, scanning from position pos (0-based)
RECURSIVE FromIntsScan(_, _, _)
FromIntsScan(k, cs, pos) ==
    IF pos >= Len(cs) THEN [tag |-> "NotNulTerminated", pos |-> 0, view |-> <<>>]
    ELSE IF ~IntValid(k, cs[pos + 1])
    THEN [tag |-> "InvalidChar", pos |-> pos, view |-> <<>>]
    ELSE IF IntToChar(k, cs[pos + 1]) = NUL
    THEN IF pos # Len(cs) - 1
         THEN [tag |-> "InteriorNul", pos |-> pos, view |-> <<>>]
         ELSE [tag |-> "Ok", pos |-> 0, view |-> FromIntsWithNulUnchecked(cs)]
    ELSE FromIntsScan(k, cs, pos + 1)

FromIntsWithNul(k, cs) == FromIntsScan(k, cs, 0)

-----------------------------------------------------------------------------
(* encode *)

\* The locals of encode: the buffer, the three cursors, and how the loop
\* over the graphemes stands ("run", "break", or the error returned)
EncodeStart(buf) ==
    [buffer |-> buf, parsed_input_len |-> 0, encoded_output_len |-> 0,
     output_idx |-> 0, ctl |-> "run", err |-> 0]

\* The reserved terminator slot: buffer.len() - 1
BufferCapacity(buf) == Len(buf) - 1

\* The offset an InteriorNul or UnsupportedChar error carries: input_idx,
\* the offset grapheme.char_indices() gives
ErrorIndex(grapheme_idx, input_idx) == input_idx

\* A push that does not keep the terminator's slot free
EncodePushNoReserve(st, unit) ==
    IF st.output_idx <= BufferCapacity(st.buffer)
    THEN [st EXCEPT !.buffer[st.output_idx + 1] = unit, !.output_idx = @ + 1]
    ELSE [st EXCEPT !.ctl = "break"]

\* buffer[output_idx] = unit; output_idx += 1, when output_idx < buffer_capacity;
\* break 'graphemes otherwise
EncodePush(st, unit) ==
    IF st.output_idx < BufferCapacity(st.buffer)
    THEN [st EXCEPT !.buffer[st.output_idx + 1] = unit, !.output_idx = @ + 1]
    ELSE [st EXCEPT !.ctl = "break"]

\* One pass of the loop over a grapheme's code points
EncodeChar(k, st, grapheme_idx, input_idx, input_char) ==
    IF input_char = NUL
    THEN [st EXCEPT !.ctl = "InteriorNul", !.err = ErrorIndex(grapheme_idx, input_idx)]
    ELSE LET s1 == IF input_char = LF THEN EncodePush(st, CharToInt(k, CR)) ELSE st
         IN IF s1.ctl = "break" THEN s1
            ELSE IF ~CharSupported(k, input_char)
            THEN [s1 EXCEPT !.ctl = "UnsupportedChar",
                            !.err = ErrorIndex(grapheme_idx, input_idx)]
            ELSE EncodePush(s1, CharToInt(k, input_char))

\* Every time we get through a grapheme cluster, advance public cursors
EncodeCommit(st, g) ==
    [st EXCEPT !.parsed_input_len = g.idx + ByteLen(g.chars),
               !.encoded_output_len = st.output_idx]

\* A loop over the code points that a full buffer ends with a plain `break`:
\* the cursors advance past the cut cluster and the next grapheme is tried
RECURSIVE EncodeGraphemeInnerBreak(_, _, _, _)
EncodeGraphemeInnerBreak(k, st, g, j) ==
    IF j > Len(g.chars) THEN EncodeCommit(st, g)
    ELSE LET s1 == EncodeChar(k, st, g.idx, ByteOffset(g.chars, j), g.chars[j])
         IN IF s1.ctl = "break" THEN EncodeCommit([s1 EXCEPT !.ctl = "run"], g)
            ELSE IF s1.ctl # "run" THEN s1
            ELSE EncodeGraphemeInnerBreak(k, s1, g, j + 1)

\* The loop over the code points of grapheme g, from its j-th char on
RECURSIVE EncodeGrapheme(_, _, _, _)
EncodeGrapheme(k, st, g, j) ==
    IF j > Len(g.chars) THEN EncodeCommit(st, g)
    ELSE LET s1 == EncodeChar(k, st, g.idx, ByteOffset(g.chars, j), g.chars[j])
         IN IF s1.ctl # "run" THEN s1 ELSE EncodeGrapheme(k, s1, g, j + 1)

\* A loop 'graphemes that skips a cluster that does not fit, takes back
\* what it wrote of it, and goes on with the clusters after it
RECURSIVE EncodeGraphemesSkipUnfit(_, _, _, _)
EncodeGraphemesSkipUnfit(k, st, gs, i) ==
    IF i > Len(gs) THEN st
    ELSE LET s1 == EncodeGrapheme(k, st, gs[i], 1)
         IN IF s1.ctl = "break"
            THEN EncodeGraphemesSkipUnfit(
                     k, [s1 EXCEPT !.ctl = "run", !.output_idx = s1.encoded_output_len],
                     gs, i + 1)
            ELSE IF s1.ctl # "run" THEN s1
            ELSE EncodeGraphemesSkipUnfit(k, s1, gs, i + 1)

\* The loop 'graphemes, from the i-th grapheme on
RECURSIVE EncodeGraphemes(_, _, _, _)
EncodeGraphemes(k, st, gs, i) ==
    IF i > Len(gs) THEN st
    ELSE LET s1 == EncodeGrapheme(k, st, gs[i], 1)
         IN IF s1.ctl # "run" THEN s1 ELSE EncodeGraphemes(k, s1, gs, i + 1)

\* Keep track of leftover input
RemainingInput(inp, parsed_input_len) ==
    IF parsed_input_len < ByteLen(inp) THEN Some(StrFrom(inp, parsed_input_len)) ELSE None

\* No check for progress: an empty success is returned instead
NoProgressNever(parsed_input_len, remaining_input) == FALSE

\* Treat failure to make any progress as an error
NoProgress(parsed_input_len, remaining_input) ==
    parsed_input_len = 0 /\ remaining_input # None

\* The view encode returns over the buffer once the terminator is written
EncodeOutput(buf, encoded_output_len) == FromIntsWithNulUnchecked(buf)

\* What encode returns, with the buffer and the committed cursors it leaves
EncodeFinish(inp, st) ==
    LET remaining_input == RemainingInput(inp, st.parsed_input_len)
        terminated == [st.buffer EXCEPT ![st.encoded_output_len + 1] = NUL]
        fail(tag) == [tag |-> tag, err |-> st.err, view |-> <<>>, rem |-> None,
                      buffer |-> st.buffer,
                      parsed_input_len |-> st.parsed_input_len,
                      encoded_output_len |-> st.encoded_output_len]
    IN IF st.ctl \in {"InteriorNul", "UnsupportedChar"} THEN fail(st.ctl)
       ELSE IF NoProgress(st.parsed_input_len, remaining_input)
       THEN [fail("BufferTooSmall") EXCEPT !.err = 0]
       ELSE [tag |-> "Ok", err |-> 0,
             view |-> EncodeOutput(terminated, st.encoded_output_len),
             rem |-> remaining_input, buffer |-> terminated,
             parsed_input_len |-> st.parsed_input_len,
             encoded_output_len |-> st.encoded_output_len]

\* encode::<Char>(input, buffer), for a buffer of length >= 1
Encode(k, inp, buf) ==
    EncodeFinish(inp, EncodeGraphemes(k, EncodeStart(buf), GraphemeIndices(inp), 1))

NoResult == [tag |-> "none"]

-----------------------------------------------------------------------------
(* decode *)

\* The locals of decode: the byte buffer, its cursor and the two flags
DecodeStart(n) ==
    [buffer |-> [i \in 1..n |-> 0], output_idx |-> 0,
     after_carriage_return |-> FALSE, truncated |-> FALSE]

\* Try to add this code point to our UTF-8 buffer
DecodeFits(st, ch) == Len(st.buffer) - st.output_idx >= Utf8Len(ch)

\* ch.encode_utf8(&mut buffer[output_idx..]); output_idx += its length
DecodeWrite(st, ch) ==
    LET bytes == Utf8Encode(ch)
    IN [st EXCEPT !.buffer = [i \in 1..Len(st.buffer) |->
                                 IF st.output_idx < i /\ i <= st.output_idx + Len(bytes)
                                 THEN bytes[i - st.output_idx] ELSE st.buffer[i]],
                  !.output_idx = @ + Len(bytes)]

\* The collapse with the cursor left where it was
DecodeCollapseKeepsCursor(st, ch) ==
    IF st.after_carriage_return /\ ch = LF
    THEN [st EXCEPT !.buffer[st.output_idx - 2 + 1] = LF]
    ELSE st

\* Convert CR/LF sequences to Rust-style line feeds
DecodeCollapse(st, ch) ==
    IF st.after_carriage_return /\ ch = LF
    THEN [st EXCEPT !.buffer[st.output_idx - 2 + 1] = LF, !.output_idx = @ - 1]
    ELSE st

\* One pass of the loop over the chars of the view
DecodeChar(st, ch) ==
    IF DecodeFits(st, ch)
    THEN [DecodeCollapse(DecodeWrite(st, ch), ch) EXCEPT !.after_carriage_return = (ch = CR)]
    ELSE [st EXCEPT !.truncated = TRUE]

\* The loop over input.char_indices(), from the i-th char on
RECURSIVE DecodeChars(_, _, _)
DecodeChars(st, chars, i) ==
    IF i > Len(chars) THEN st
    ELSE LET s1 == DecodeChar(st, chars[i])
         IN IF s1.truncated THEN s1 ELSE DecodeChars(s1, chars, i + 1)

\* GraphemeCursor::new(len, len + 1, true).prev_boundary(s, 0).unwrap_or(0):
\* the byte offset of the start of the last cluster of s
PrevBoundary(s) ==
    IF s = <<>> THEN 0
    ELSE LET k == CHOOSE j \in 1..Len(s) :
                     /\ j = 1 \/ ~NoBreak(s[j - 1], s[j])
                     /\ \A m \in (j + 1)..Len(s) : NoBreak(s[m - 1], s[m])
         IN ByteOffset(s, k)

\* &s[..b] for a byte offset b on a char boundary
StrTo(s, b) ==
    LET k == CHOOSE j \in 1..(Len(s) + 1) : ByteOffset(s, j) = b
    IN SubSeq(s, 1, k - 1)

\* What decode does once the loop has ended: the output when nothing was
\* truncated; otherwise the output is backed off to the start of its last
\* cluster, and the call ends in BufferTooSmall when nothing is left and in
\* unimplemented!(), a panic, when something is
DecodeFinish(st) ==
    LET output == FromUtf8(SubSeq(st.buffer, 1, st.output_idx))
        backed == StrTo(output, PrevBoundary(output))
    IN IF ~st.truncated THEN [tag |-> "Ok", output |-> output, rem |-> None]
       ELSE IF backed = <<>> THEN [tag |-> "BufferTooSmall", output |-> <<>>, rem |-> None]
       ELSE [tag |-> "Panic", output |-> <<>>, rem |-> None]

\* decode::<Char>(input, buffer) for a byte buffer of length n
Decode(k, v, n) == DecodeFinish(DecodeChars(DecodeStart(n), CharIndices(k, v), 1))

-----------------------------------------------------------------------------
(* The callers *)

\* The integers a firmware-side slice is drawn from: Chars without U+1F600,
\* U+00E9 (2 bytes of UTF-8, Latin-1) and the surrogate 0xD800; a u8 slice
\* holds those below 256
IntUnits(k) == {u \in (Chars \ {128512}) \cup {233, 55296} : k = "Char16" \/ u < 256}

\* No status code classified
StatusIdle == status = [high |-> FALSE, low |-> 0] /\ class = <<>>

\* No text-mode iterator made
ModesIdle == firmware = <<>> /\ iter = <<>> /\ hist = <<>>

\* No conversion followed pass by pass
RunIdle == run = <<>>

AuxIdle == StatusIdle /\ ModesIdle /\ RunIdle

\* No string, no buffer and no slice in the codec's hands
CodecIdle ==
    /\ kind = "Char8" /\ orig = <<>> /\ input = <<>> /\ buffer = <<NUL>>
    /\ codes = <<>> /\ res = NoResult /\ view = <<>> /\ dlen = 0
    /\ dres = NoResult /\ vres = NoResult

Idle ==
    /\ res = NoResult /\ view = <<>> /\ dlen = 0 /\ dres = NoResult
    /\ codes = <<>> /\ vres = NoResult
    /\ AuxIdle

\* A native string and a caller buffer of length >= 1, before encode is called
Init ==
    /\ pc = "call"
    /\ kind \in Kinds
    /\ orig \in SeqsUpTo(Chars, MaxLen)
    /\ input = orig
    /\ buffer \in {[i \in 1..n |-> f] : n \in 1..MaxBuf, f \in Fills}
    /\ Idle

\* encode(input, &mut buffer)
EncodeCall ==
    /\ pc = "call"
    /\ res' = Encode(kind, input, buffer)
    /\ buffer' = res'.buffer
    /\ pc' = "encoded"
    /\ UNCHANGED <<kind, orig, input, view, dlen, dres, codes, vres>>
    /\ UNCHANGED aux

\* The caller's loop: encode the remainder into the same buffer
Resubmit ==
    /\ pc = "encoded"
    /\ res.tag = "Ok"
    /\ res.rem # None
    /\ input' = res.rem[1]
    /\ res' = NoResult
    /\ pc' = "call"
    /\ UNCHANGED <<kind, orig, buffer, view, dlen, dres, codes, vres>>
    /\ UNCHANGED aux

\* decode(view, &mut bytes) of the view encode returned
DecodeCall ==
    /\ pc = "encoded"
    /\ res.tag = "Ok"
    /\ view' = res.view
    /\ \E n \in 0..MaxBytes : dlen' = n /\ dres' = Decode(kind, res.view, n)
    /\ pc' = "decoded"
    /\ UNCHANGED <<kind, orig, input, buffer, res, codes, vres>>
    /\ UNCHANGED aux

Next == EncodeCall \/ Resubmit \/ DecodeCall

Spec == Init /\ [][Next]_vars

\* The caller's loop alone; a caller that loops keeps calling
LoopNext == EncodeCall \/ Resubmit

\* The steps of LoopNext as pc shows them: encode returns whenever it is
\* called, and the caller resubmits whenever a remainder came back
LoopStep ==
    \/ pc = "call" /\ pc' = "encoded"
    \/ pc = "encoded" /\ res.tag = "Ok" /\ res.rem # None /\ pc' = "call"

LoopSpec == Init /\ [][LoopNext]_vars /\ WF_pc(LoopStep)

\* A firmware-side slice of integers, before it is validated
ViewInit ==
    /\ pc = "ints"
    /\ kind \in Kinds
    /\ codes \in SeqsUpTo(IntUnits("Char16"), MaxLen + 1)
    /\ \A i \in 1..Len(codes) : codes[i] \in IntUnits(kind)
    /\ orig = <<>> /\ input = <<>> /\ buffer = <<NUL>>
    /\ res = NoResult /\ view = <<>> /\ dlen = 0 /\ dres = NoResult /\ vres = NoResult
    /\ AuxIdle

\* CStr::from_ints_with_nul(codes)
ValidateCall ==
    /\ pc = "ints"
    /\ vres' = FromIntsWithNul(kind, codes)
    /\ pc' = "validated"
    /\ UNCHANGED <<kind, orig, input, buffer, res, view, dlen, dres, codes>>
    /\ UNCHANGED aux

\* decode(view, &mut bytes) of a validated view
DecodeView ==
    /\ pc = "validated"
    /\ vres.tag = "Ok"
    /\ view' = vres.view
    /\ \E n \in 0..MaxBytes : dlen' = n /\ dres' = Decode(kind, vres.view, n)
    /\ pc' = "decoded"
    /\ UNCHANGED <<kind, orig, input, buffer, res, codes, vres>>
    /\ UNCHANGED aux

ViewNext == ValidateCall \/ DecodeView

ViewSpec == ViewInit /\ [][ViewNext]_vars

-----------------------------------------------------------------------------
(* What the claims speak of, stated without the operators above *)

\* The code units of v before its first null
UnitsBeforeNul(v) ==
    LET p == CHOOSE i \in 1..Len(v) : v[i] = NUL /\ \A j \in 1..(i - 1) : v[j] # NUL
    IN SubSeq(v, 1, p - 1)

IsPrefix(a, b) == Len(a) <= Len(b) /\ a = SubSeq(b, 1, Len(a))

\* The first n chars of s end on a grapheme-cluster boundary
IsBoundary(s, n) == n = 0 \/ n = Len(s) \/ ~NoBreak(s[n], s[n + 1])

\* The per-character encoding of s, a carriage return before every line feed
RECURSIVE ExpectedUnits(_)
ExpectedUnits(s) ==
    IF s = <<>> THEN <<>>
    ELSE (IF s[1] = LF THEN <<CR, LF>> ELSE <<s[1]>>) \o ExpectedUnits(Tail(s))

\* The number of chars of the first grapheme cluster of a non-empty s
FirstClusterLen(s) == CHOOSE n \in 1..Len(s) :
    IsBoundary(s, n) /\ \A m \in 1..(n - 1) : ~IsBoundary(s, m)

Encodable(k, s) ==
    \A i \in 1..Len(s) : s[i] # NUL /\ s[i] <= (IF k = "Char8" THEN 255 ELSE 65535)

\* The bytes of input the call consumed, as the remainder it returned shows
Consumed(inp, r) == ByteLen(inp) - (IF r.rem = None THEN 0 ELSE ByteLen(r.rem[1]))

Encoded == pc = "encoded"

EncodedOk == pc = "encoded" /\ res.tag = "Ok"

\* C1: whenever encode returns success, the returned view is exactly the
\* committed output code units followed by one null: its last element is
\* the null and no element before the last is null.
C1_ViewIsWrittenPrefix ==
    EncodedOk =>
        /\ ToIntsSliceWithNul(res.view) = UnitsBeforeNul(res.buffer) \o <<NUL>>
        /\ res.view[Len(res.view)] = NUL
        /\ \A i \in 1..(Len(res.view) - 1) : res.view[i] # NUL

\* C2: whenever encode returns success, the consumed input ends on a
\* grapheme-cluster boundary, the code units before the written terminator
\* are the encoding of the consumed clusters with a CR before every LF, they
\* fit below the terminator slot, and the remainder is the unconsumed suffix
\* (absent when everything was consumed); "hi\n" into capacity 5 gives
\* h,i,CR,LF,null and no remainder, into capacity 4 h,i,null and "\n".
C2_CommittedClusters ==
    EncodedOk =>
        /\ \E n \in 0..Len(input) :
              /\ IsBoundary(input, n)
              /\ UnitsBeforeNul(res.buffer) = ExpectedUnits(SubSeq(input, 1, n))
              /\ Len(ExpectedUnits(SubSeq(input, 1, n))) <= Len(buffer) - 1
              /\ res.rem = IF n = Len(input) THEN None
                           ELSE Some(SubSeq(input, n + 1, Len(input)))
        /\ (input = <<104, 105, LF>> /\ Len(buffer) = 5) =>
              res.buffer = <<104, 105, CR, LF, NUL>> /\ res.rem = None
        /\ (input = <<104, 105, LF>> /\ Len(buffer) = 4) =>
              SubSeq(res.buffer, 1, 3) = <<104, 105, NUL>> /\ res.rem = Some(<<LF>>)

C2_Witness ==
    /\ EncodedOk /\ input = <<104, 105, LF>> /\ Len(buffer) = 4
    /\ res.rem = Some(<<LF>>)

\* C3: a non-empty input whose first grapheme cluster (free of null and of
\* unsupported characters) does not fit the buffer fails with
\* BufferTooSmall; success never comes with nothing consumed and a
\* remainder; the empty input succeeds with an empty string, no remainder.
C3_NoProgressIsAnError ==
    Encoded =>
        /\ ( /\ input # <<>>
             /\ Encodable(kind, SubSeq(input, 1, FirstClusterLen(input)))
             /\ Len(ExpectedUnits(SubSeq(input, 1, FirstClusterLen(input))))
                    > Len(buffer) - 1 )
           => res.tag = "BufferTooSmall"
        /\ res.tag = "Ok" => res.rem # Some(input)
        /\ input = <<>> =>
              /\ res.tag = "Ok" /\ res.rem = None
              /\ UnitsBeforeNul(res.view) = <<>>

C3_Witness ==
    /\ Encoded /\ res.tag = "BufferTooSmall"
    /\ input = <<104, 769>> /\ kind = "Char16" /\ Len(buffer) = 2

\* C4: an input that contains a null character fails, for any buffer, with
\* InteriorNul(p), p the byte offset in the whole input of its first null.
C4_InteriorNulOffset ==
    (Encoded /\ \E i \in 1..Len(input) : input[i] = NUL) =>
        /\ res.tag = "InteriorNul"
        /\ \E i \in 1..Len(input) :
              /\ input[i] = NUL /\ \A j \in 1..(i - 1) : input[j] # NUL
              /\ res.err = ByteLen(SubSeq(input, 1, i - 1))

\* C5: whenever encode fails with UnsupportedChar(i), i is the byte offset
\* in the whole input of the first character the encoding cannot represent.
C5_UnsupportedCharOffset ==
    (Encoded /\ res.tag = "UnsupportedChar") =>
        \E i \in 1..Len(input) :
            /\ ~Encodable(kind, <<input[i]>>)
            /\ Encodable(kind, SubSeq(input, 1, i - 1))
            /\ res.err = ByteLen(SubSeq(input, 1, i - 1))

\* C6: a caller that resubmits the remainder of every successful call into
\* the same buffer terminates: a success with a remainder consumed at least
\* one whole grapheme cluster, so each resubmitted input is strictly shorter,
\* and the loop ends with an absent remainder or with an error.
C6_LoopTerminates ==
    /\ [](EncodedOk /\ res.rem # None =>
             \E n \in 1..(Len(input) - 1) :
                 /\ IsBoundary(input, n)
                 /\ res.rem = Some(SubSeq(input, n + 1, Len(input))))
    /\ [][pc = "encoded" /\ pc' = "call" => ByteLen(input') < ByteLen(input)]_vars
    /\ <>[](pc = "encoded" /\ (res.tag # "Ok" \/ res.rem = None))

C6_Witness ==
    /\ EncodedOk /\ res.rem = None
    /\ orig = <<104, 105, LF>> /\ input = <<LF>> /\ Len(buffer) = 3

\* The bytes that hold every char of the view v
ViewBytes(k, v) == ByteLen([i \in 1..(Len(v) - 1) |-> v[i]])

\* C7: round trip: a native string without null or unsupported characters,
\* encoded into any buffer with at least enough room and decoded from the
\* returned view into a sufficiently large byte buffer, is reproduced.
C7_RoundTrip ==
    ( /\ pc = "decoded" /\ res.tag = "Ok" /\ res.rem = None
      /\ dlen >= ViewBytes(kind, view) )
    => dres.tag = "Ok" /\ dres.rem = None /\ dres.output = input

\* C8: monotonic truncation: when encode succeeds with a capacity c1 and
\* with a capacity c2 >= c1, it consumes with c1 at most what it consumes
\* with c2, and the code units emitted with c1 are a prefix of those
\* emitted with c2.
C8_MonotonicTruncation ==
    EncodedOk =>
        \A c1 \in 1..Len(buffer) : \A f \in Fills :
            LET r1 == Encode(kind, input, [i \in 1..c1 |-> f])
            IN r1.tag = "Ok" =>
                  /\ Consumed(input, r1) <= Consumed(input, res)
                  /\ IsPrefix(UnitsBeforeNul(r1.view), UnitsBeforeNul(res.view))

C8_Witness ==
    /\ EncodedOk /\ input = <<104, 769, LF>> /\ kind = "Char16"
    /\ Len(buffer) = 5 /\ res.rem = None
    /\ LET r1 == Encode(kind, input, <<NUL, NUL, NUL, NUL>>)
       IN r1.tag = "Ok" /\ Consumed(input, r1) = 3 /\ UnitsBeforeNul(r1.view) = <<104, 769>>

Validated == pc \in {"validated", "decoded"}

\* The positions (0-based) of codes that end the scan: an invalid unit or a null
Decisive(k, cs) == {p \in 0..(Len(cs) - 1) : ~IntValid(k, cs[p + 1]) \/ cs[p + 1] = NUL}

\* C9: validating construction returns the outcome of the first decisive
\* position in slice order: InvalidChar(p) at an invalid unit, InteriorNul(p)
\* at a null before the final position, success with a view over the whole
\* slice at a null at the final position, and NotNulTerminated when the
\* slice (the empty one included) has only valid non-null units.
C9_ValidationOutcome ==
    Validated =>
        IF Decisive(kind, codes) = {}
        THEN vres.tag = "NotNulTerminated"
        ELSE LET p == CHOOSE q \in Decisive(kind, codes) :
                         \A r \in Decisive(kind, codes) : q <= r
             IN IF ~IntValid(kind, codes[p + 1])
                THEN vres.tag = "InvalidChar" /\ vres.pos = p
                ELSE IF p < Len(codes) - 1
                THEN vres.tag = "InteriorNul" /\ vres.pos = p
                ELSE vres.tag = "Ok" /\ ToIntsSliceWithNul(vres.view) = codes

C9_Witness ==
    /\ Validated /\ kind = "Char16" /\ codes = <<104, NUL, 105, NUL>>
    /\ vres.tag = "InteriorNul" /\ vres.pos = 1

\* The chars of a valid view, its terminator excluded
ViewChars(v) == SubSeq(v, 1, Len(v) - 1)

\* The native text the first n chars of a view decode to: CR+LF becomes LF
RECURSIVE ExpectedText(_)
ExpectedText(s) ==
    IF s = <<>> THEN <<>>
    ELSE IF Len(s) >= 2 /\ s[1] = CR /\ s[2] = LF
    THEN <<LF>> \o ExpectedText(SubSeq(s, 3, Len(s)))
    ELSE <<s[1]>> \o ExpectedText(Tail(s))

\* C10: decode always ends with a value outcome, success or BufferTooSmall,
\* and never aborts; when the destination is too small for the whole input
\* but a whole grapheme cluster fits, it returns success with text backed
\* off to a grapheme-cluster boundary and a non-absent remainder.
C10_DecodeValueOutcome ==
    (pc = "decoded" /\ vres.tag = "Ok") =>
        /\ dres.tag \in {"Ok", "BufferTooSmall"}
        /\ ( /\ dlen < ByteLen(ExpectedText(ViewChars(view)))
             /\ dlen >= ByteLen(SubSeq(ViewChars(view), 1, FirstClusterLen(ViewChars(view)))) )
           => dres.tag = "Ok" /\ dres.rem # None /\ dres.output # <<>>

\* C12: when the destination byte buffer is large enough for every
\* character of the input view, decode returns success with no remainder and
\* the decoded text is the view's characters (terminator excluded) in order,
\* every CR that is immediately followed by LF removed; a CR not followed by
\* LF and an LF not preceded by CR are kept.
C12_FullFitDecode ==
    (pc = "decoded" /\ vres.tag = "Ok" /\ dlen >= ViewBytes(kind, view)) =>
        /\ dres.tag = "Ok" /\ dres.rem = None
        /\ dres.output = ExpectedText(ViewChars(view))

C12_Witness ==
    /\ pc = "decoded" /\ vres.tag = "Ok" /\ dlen = ViewBytes(kind, view)
    /\ view = <<CR, CR, LF, NUL>> /\ dres.tag = "Ok" /\ dres.output = <<CR, LF>>

(***************************************************************************)
(* Status codes (src/status.rs).  A usize is kept as its highest bit and   *)
(* its remaining bits, so that nothing depends on the width of a usize.    *)
(***************************************************************************)

\* The usize of a small number: the highest bit clear
Usize(n) == [high |-> FALSE, low |-> n]

\* !((!0_usize) >> 1): the highest bit alone
HIGHEST_BIT_SET == [high |-> TRUE, low |-> 0]

\* Bitwise a & b of two naturals
RECURSIVE NatAnd(_, _)
NatAnd(a, b) ==
    IF a = 0 \/ b = 0 THEN 0
    ELSE (a % 2) * (b % 2) + 2 * NatAnd(a \div 2, b \div 2)

\* a & b of two usizes
BitAnd(a, b) == [high |-> a.high /\ b.high, low |-> NatAnd(a.low, b.low)]

\* n | HIGHEST_BIT_SET for a small n: the discriminant of the n-th error
ErrorCode(n) == [high |-> TRUE, low |-> n]

\* Status::Success
Success == Usize(0)

\* WarnUnknownGlyph .. WarnResetRequired
Warnings == {Usize(n) : n \in 1..7}

\* LoadError .. EndOfMedia and EndOfFile .. HttpError
Errors == {ErrorCode(n) : n \in (1..28) \cup (31..35)}

\* Every variant of the enum Status, as its discriminant
Statuses == {Success} \cup Warnings \cup Errors

IsSuccess(self) == self = Success

IsWarning(self) == BitAnd(self, HIGHEST_BIT_SET) = Usize(0)

IsError(self) == BitAnd(self, HIGHEST_BIT_SET) = Usize(1)

\* Status -> Result<()>: Ok(()) for Success, the status as the error otherwise
IntoResult(self) ==
    IF IsSuccess(self) THEN [tag |-> "Ok"] ELSE [tag |-> "Err", err |-> self]

\* A status code returned by the firmware, nothing asked of it yet
StatusInit ==
    /\ pc = "status" /\ CodecIdle /\ ModesIdle /\ RunIdle
    /\ status \in Statuses
    /\ class = [is_success |-> None, is_warning |-> None, is_error |-> None,
                result |-> None]

IsSuccessCall ==
    /\ pc = "status" /\ class.is_success = None
    /\ class' = [class EXCEPT !.is_success = Some(IsSuccess(status))]
    /\ UNCHANGED <<kind, orig, input, buffer, res, view, dlen, dres, codes, vres, pc>>
    /\ UNCHANGED <<status, firmware, iter, hist, run>>

IsWarningCall ==
    /\ pc = "status" /\ class.is_warning = None
    /\ class' = [class EXCEPT !.is_warning = Some(IsWarning(status))]
    /\ UNCHANGED <<kind, orig, input, buffer, res, view, dlen, dres, codes, vres, pc>>
    /\ UNCHANGED <<status, firmware, iter, hist, run>>

IsErrorCall ==
    /\ pc = "status" /\ class.is_error = None
    /\ class' = [class EXCEPT !.is_error = Some(IsError(status))]
    /\ UNCHANGED <<kind, orig, input, buffer, res, view, dlen, dres, codes, vres, pc>>
    /\ UNCHANGED <<status, firmware, iter, hist, run>>

IntoResultCall ==
    /\ pc = "status" /\ class.result = None
    /\ class' = [class EXCEPT !.result = Some(IntoResult(status))]
    /\ UNCHANGED <<kind, orig, input, buffer, res, view, dlen, dres, codes, vres, pc>>
    /\ UNCHANGED <<status, firmware, iter, hist, run>>

StatusNext == IsSuccessCall \/ IsWarningCall \/ IsErrorCall \/ IntoResultCall

StatusSpec == StatusInit /\ [][StatusNext]_vars

\* The three predicates have all been asked of the status code
Classified ==
    /\ pc = "status"
    /\ class.is_success # None /\ class.is_warning # None /\ class.is_error # None

\* C11: is_error is true exactly for the status codes whose highest bit is
\* set and false for Success and all warnings; is_warning is true exactly for
\* the warning codes (non-success, highest bit clear); so every status code
\* satisfies exactly one of is_success, is_warning and is_error.
C11_StatusClassification ==
    Classified =>
        /\ class.is_error = Some(status \in Errors)
        /\ class.is_warning = Some(status \in Warnings)
        /\ \E only \in {"is_success", "is_warning", "is_error"} :
              \A p \in {"is_success", "is_warning", "is_error"} :
                  class[p] = Some(p = only)

(***************************************************************************)
(* The iterator of text modes (src/proto/console/text/output.rs).  The     *)
(* firmware is the protocol's data (max_mode) and, for each mode index,    *)
(* the status and the dimensions its query_mode function answers with.     *)
(***************************************************************************)

\* The largest number of modes a firmware declares here
MaxModes == 3

\* The dimensions (columns, rows) a firmware answers with
Dims == {<<80, 25>>, <<80, 50>>}

\* The statuses a firmware answers a query with: success, a warning
\* (WarnUnknownGlyph) and an error (Unsupported)
QueryStatuses == {Success, Usize(1), ErrorCode(3)}

\* Output::query_mode(index): the firmware's function, then `?` on its status
QueryMode(fw, index) ==
    LET r == IntoResult(fw.status[index + 1])
    IN IF r.tag = "Ok" THEN [tag |-> "Ok", dims |-> fw.dims[index + 1]] ELSE r

\* Output::modes()
Modes(fw) == [current |-> 0, max |-> fw.max_mode]

\* next() that gives up at the first index whose query fails
RECURSIVE OutputModeIterNextNoSkip(_, _, _)
OutputModeIterNextNoSkip(it, fw, queries) ==
    LET index == it.current
    IN IF index < it.max
       THEN LET it1 == [it EXCEPT !.current = @ + 1]
                r == QueryMode(fw, index)
            IN IF r.tag = "Ok"
               THEN [iter |-> it1, queries |-> queries + 1,
                     item |-> Some([index |-> index, dims |-> r.dims])]
               ELSE [iter |-> it1, queries |-> queries + 1, item |-> None]
       ELSE [iter |-> it, queries |-> queries, item |-> None]

\* OutputModeIter::next(), with the iterator it leaves behind and the number
\* of queries made so far
RECURSIVE OutputModeIterNext(_, _, _)
OutputModeIterNext(it, fw, queries) ==
    LET index == it.current
    IN IF index < it.max
       THEN LET it1 == [it EXCEPT !.current = @ + 1]
                r == QueryMode(fw, index)
            IN IF r.tag = "Ok"
               THEN [iter |-> it1, queries |-> queries + 1,
                     item |-> Some([index |-> index, dims |-> r.dims])]
               ELSE OutputModeIterNext(it1, fw, queries + 1)
       ELSE [iter |-> it, queries |-> queries, item |-> None]

\* A text output protocol as the firmware hands it over
ModesInit ==
    /\ pc = "output" /\ CodecIdle /\ StatusIdle /\ RunIdle
    /\ \E n \in 0..MaxModes :
          firmware \in [max_mode : {n},
                        status : [1..n -> QueryStatuses],
                        dims : [1..n -> Dims]]
    /\ iter = <<>> /\ hist = <<>>

\* let it = output.modes()
ModesCall ==
    /\ pc = "output"
    /\ iter' = Modes(firmware)
    /\ hist' = [yielded |-> <<>>, returned |-> FALSE, last |-> None, queries |-> 0]
    /\ pc' = "iter"
    /\ UNCHANGED <<kind, orig, input, buffer, res, view, dlen, dres, codes, vres>>
    /\ UNCHANGED <<status, class, firmware, run>>

\* it.next()
NextCall ==
    /\ pc = "iter"
    /\ LET r == OutputModeIterNext(iter, firmware, hist.queries)
       IN /\ iter' = r.iter
          /\ hist' = [yielded |-> hist.yielded \o r.item, returned |-> TRUE,
                      last |-> r.item, queries |-> r.queries]
    /\ UNCHANGED <<kind, orig, input, buffer, res, view, dlen, dres, codes, vres, pc>>
    /\ UNCHANGED <<status, class, firmware, run>>

ModesNext == ModesCall \/ NextCall

ModesSpec == ModesInit /\ [][ModesNext]_vars

\* The mode indices below n whose query the firmware answers with success
Supported(fw, n) == {i \in 0..(n - 1) : fw.status[i + 1] = Success}

\* The iterator has returned None
Exhausted == pc = "iter" /\ hist.returned /\ hist.last = None

\* What holds of the iterator after any number of calls of next()
ModesState ==
    pc = "iter" =>
        /\ \A a, b \in 1..Len(hist.yielded) :
              a < b => hist.yielded[a].index < hist.yielded[b].index
        /\ \A a \in 1..Len(hist.yielded) :
              hist.yielded[a].dims = firmware.dims[hist.yielded[a].index + 1]
        /\ {hist.yielded[a].index : a \in 1..Len(hist.yielded)}
              = Supported(firmware, iter.current)
        /\ 0 <= iter.current /\ iter.current <= firmware.max_mode
        /\ hist.queries = iter.current /\ hist.queries <= firmware.max_mode
        /\ Exhausted => iter.current = firmware.max_mode
        /\ (hist.returned /\ hist.last # None) =>
              hist.last = Some(hist.yielded[Len(hist.yielded)])

\* What holds of one call of next()
ModesStep ==
    pc = "iter" =>
        /\ iter'.current >= iter.current
        /\ Exhausted => Exhausted'
        /\ iter.current = firmware.max_mode => Exhausted'
        /\ hist'.yielded = hist.yielded \o hist'.last

\* C13: the iterator returned by Output::modes yields, in strictly increasing
\* index order and each at most once, exactly the mode indices in
\* [0, max_mode) whose query_mode call succeeds, with the dimensions that
\* query returned; its cursor never decreases and never exceeds max_mode, and
\* after at most max_mode queries it returns None and keeps returning None.
C13_ModeIterator == [](ModesState) /\ [][ModesStep]_vars

C13_Witness ==
    /\ Exhausted /\ firmware.max_mode = 3
    /\ firmware.status = <<Success, ErrorCode(3), Success>>
    /\ Len(hist.yielded) = 2
    /\ hist.yielded[1].index = 0 /\ hist.yielded[2].index = 2
    /\ hist.queries = 3

(***************************************************************************)
(* encode and decode followed pass by pass.  run holds the locals of the   *)
(* call under way (st, the buffer as the call has it so far included),     *)
(* where its loops stand, and the 0-based indices of the buffer the last   *)
(* pass wrote to (writes); buffer stays what the caller passed.            *)
(***************************************************************************)

\* An encode call about to enter its loop over the graphemes
EncodeRun(inp, buf) ==
    [op |-> "encode", st |-> EncodeStart(buf), gs |-> GraphemeIndices(inp),
     gi |-> 1, ci |-> 1, writes |-> {}, done |-> FALSE]

\* A decode call about to enter its loop over the chars of the view
DecodeRun(k, v, n) ==
    [op |-> "decode", st |-> DecodeStart(n), chars |-> CharIndices(k, v),
     i |-> 1, writes |-> {}, done |-> FALSE]

\* The arguments of an encode call, or a validated view and the length of
\* the byte buffer of a decode call
StepInit ==
    /\ pc = "step" /\ StatusIdle /\ ModesIdle
    /\ kind \in Kinds
    /\ res = NoResult /\ dres = NoResult
    /\ \/ /\ orig \in SeqsUpTo(Chars, MaxLen)
          /\ input = orig
          /\ buffer \in {[i \in 1..n |-> f] : n \in 1..MaxBuf, f \in Fills}
          /\ codes = <<>> /\ vres = NoResult /\ view = <<>> /\ dlen = 0
          /\ run = EncodeRun(input, buffer)
       \/ /\ orig = <<>> /\ input = <<>> /\ buffer = <<NUL>>
          /\ codes \in SeqsUpTo(IntUnits("Char16"), MaxLen + 1)
          /\ \A i \in 1..Len(codes) : codes[i] \in IntUnits(kind)
          /\ vres = FromIntsWithNul(kind, codes)
          /\ vres.tag = "Ok"
          /\ view = vres.view
          /\ dlen \in 0..MaxBytes
          /\ run = DecodeRun(kind, view, dlen)

\* One pass of the loop over the code points of the current grapheme
EncodeCharStep ==
    /\ pc = "step" /\ run.op = "encode" /\ ~run.done
    /\ run.st.ctl = "run" /\ run.gi <= Len(run.gs)
    /\ run.ci <= Len(run.gs[run.gi].chars)
    /\ LET g == run.gs[run.gi]
           s1 == EncodeChar(kind, run.st, g.idx, ByteOffset(g.chars, run.ci),
                            g.chars[run.ci])
       IN run' = [run EXCEPT !.st = s1, !.ci = @ + 1,
                             !.writes = run.st.output_idx..(s1.output_idx - 1)]
    /\ UNCHANGED <<kind, orig, input, buffer, res, view, dlen, dres, codes, vres, pc>>
    /\ UNCHANGED <<status, class, firmware, iter, hist>>

\* The end of a grapheme's code points: the public cursors advance
EncodeCommitStep ==
    /\ pc = "step" /\ run.op = "encode" /\ ~run.done
    /\ run.st.ctl = "run" /\ run.gi <= Len(run.gs)
    /\ run.ci > Len(run.gs[run.gi].chars)
    /\ run' = [run EXCEPT !.st = EncodeCommit(run.st, run.gs[run.gi]),
                          !.gi = @ + 1, !.ci = 1, !.writes = {}]
    /\ UNCHANGED <<kind, orig, input, buffer, res, view, dlen, dres, codes, vres, pc>>
    /\ UNCHANGED <<status, class, firmware, iter, hist>>

\* After the loop: the error, or the terminator and the view
EncodeFinishStep ==
    /\ pc = "step" /\ run.op = "encode" /\ ~run.done
    /\ run.st.ctl # "run" \/ run.gi > Len(run.gs)
    /\ res' = EncodeFinish(input, run.st)
    /\ run' = [run EXCEPT !.done = TRUE, !.st.buffer = res'.buffer,
                          !.writes = IF res'.tag = "Ok"
                                     THEN {run.st.encoded_output_len} ELSE {}]
    /\ UNCHANGED <<kind, orig, input, buffer, view, dlen, dres, codes, vres, pc>>
    /\ UNCHANGED <<status, class, firmware, iter, hist>>

\* One pass of the loop over the chars of the view
DecodeCharStep ==
    /\ pc = "step" /\ run.op = "decode" /\ ~run.done
    /\ ~run.st.truncated /\ run.i <= Len(run.chars)
    /\ LET ch == run.chars[run.i]
           written == DecodeWrite(run.st, ch)
       IN run' = [run EXCEPT
                     !.st = DecodeChar(run.st, ch), !.i = @ + 1,
                     !.writes =
                        IF ~DecodeFits(run.st, ch) THEN {}
                        ELSE (run.st.output_idx..(written.output_idx - 1))
                             \cup (IF DecodeCollapse(written, ch) # written
                                   THEN {written.output_idx - 2} ELSE {})]
    /\ UNCHANGED <<kind, orig, input, buffer, res, view, dlen, dres, codes, vres, pc>>
    /\ UNCHANGED <<status, class, firmware, iter, hist>>

\* After the loop: the text, or the back-off
DecodeFinishStep ==
    /\ pc = "step" /\ run.op = "decode" /\ ~run.done
    /\ run.st.truncated \/ run.i > Len(run.chars)
    /\ dres' = DecodeFinish(run.st)
    /\ run' = [run EXCEPT !.done = TRUE, !.writes = {}]
    /\ UNCHANGED <<kind, orig, input, buffer, res, view, dlen, codes, vres, pc>>
    /\ UNCHANGED <<status, class, firmware, iter, hist>>

StepNext ==
    \/ EncodeCharStep \/ EncodeCommitStep \/ EncodeFinishStep
    \/ DecodeCharStep \/ DecodeFinishStep

StepSpec == StepInit /\ [][StepNext]_vars

\* Followed pass by pass, a call ends as the call taken whole
StepwiseAgrees ==
    (pc = "step" /\ run.done) =>
        IF run.op = "encode" THEN res = Encode(kind, input, buffer)
        ELSE dres = Decode(kind, view, dlen)

\* What holds of the cursors and of the indices written, after every pass
CursorState ==
    pc = "step" =>
        IF run.op = "encode"
        THEN /\ 0 <= run.st.encoded_output_len
             /\ run.st.encoded_output_len <= run.st.output_idx
             /\ run.st.output_idx <= Len(buffer) - 1
             /\ run.writes \subseteq 0..(Len(buffer) - 1)
             /\ Len(buffer) - 1 \notin 0..(run.st.encoded_output_len - 1)
             /\ (run.done /\ res.tag = "Ok") =>
                   /\ run.writes = {res.encoded_output_len}
                   /\ run.st.buffer[res.encoded_output_len + 1] = NUL
        ELSE /\ 0 <= run.st.output_idx /\ run.st.output_idx <= dlen
             /\ run.writes \subseteq 0..(dlen - 1)

\* What holds of the cursors of encode over one pass
CursorStep ==
    (pc = "step" /\ run.op = "encode") =>
        /\ run'.st.output_idx >= run.st.output_idx
        /\ run'.st.encoded_output_len >= run.st.encoded_output_len

\* C14: during any encode call with a buffer of length >= 1, committed-output
\* length <= output cursor <= buffer length - 1 holds at every step, both
\* cursors never decrease, every write (code unit, inserted CR and final
\* terminator) lands at an index inside the buffer, and the terminator slot is
\* never taken by a committed code unit; during any decode call every write
\* and the in-place CR+LF collapse (which rewrites index output cursor - 2)
\* stay inside the destination buffer and the output cursor never goes below
\* zero.
C14_CursorSafety == [](CursorState) /\ [][CursorStep]_vars

C14_Witness ==
    /\ pc = "step" /\ run.op = "encode" /\ run.done /\ res.tag = "Ok"
    /\ input = <<104, LF, 105>> /\ Len(buffer) = 4
    /\ res.encoded_output_len = 3 /\ run.writes = {3}
    /\ res.rem = Some(<<105>>)

=============================================================================
